---- MODULE Spec2Model ----
(***************************************************************************)
(* Model of dot_pi/agent/scripts/sync-settings.py: the settings sync that  *)
(* reads the live Windows settings.json, re-serialises it as               *)
(* settings.windows.json and writes a path-normalised copy as              *)
(* settings.linux.json.                                                    *)
(*                                                                         *)
(* Python strings are sequences of one-character symbols; a dict key such  *)
(* as skills is the one-symbol string <<"skills">>.  Python objects live   *)
(* in a heap (a sequence of dict and list nodes addressed by index), so    *)
(* that copying, aliasing and in-place assignment are what the code does.  *)
(***************************************************************************)
EXTENDS Integers, Sequences, FiniteSets, TLC

VARIABLES
    argv,        \* the command line: whether --from was passed, and its value
    environ,     \* os.environ restricted to USERPROFILE
    fs,          \* the file system: path -> [exists, text]
    fs0,         \* the file system when the run started
    stdout,      \* the lines printed so far
    pc,          \* position of the run inside main (or of the caller in SpecNormalize)
    source,      \* main's local `source`
    raw,         \* main's local `raw`
    heap,        \* the Python object heap
    heap0,       \* the heap when _to_linux_variant was first called
    data,        \* main's local `data` (a value: an immutable or a reference)
    linux,       \* main's local `linux`
    again,       \* the value of _to_linux_variant(linux), in SpecNormalize
    exit_code,   \* the process exit status, once the run has ended
    error,       \* the exception that ended the run, if any
    env_read,    \* whether os.environ.get("USERPROFILE") has been evaluated
    wlog         \* the write_text calls made so far, in order: [path, ok]

vars == <<argv, environ, fs, fs0, stdout, pc, source, raw, heap, heap0, data,
          linux, again, exit_code, error, env_read, wlog>>

(***************************************************************************)
(* Bounds                                                                  *)
(***************************************************************************)
\* longest candidate string placed in the documents handed to _to_linux_variant
MaxLen == 3

(***************************************************************************)
(* Strings                                                                 *)
(***************************************************************************)
BS == "\\"
QUOTE == "\""
Alphabet == {"a", ":", "/", BS}

StringsUpTo(n) == UNION {[1..k -> Alphabet] : k \in 0..n}

\* `sub in value`
Contains(value, sub) ==
    \E i \in 1..(Len(value) - Len(sub) + 1) :
        SubSeq(value, i, i + Len(sub) - 1) = sub

\* value.replace(old, new): non-overlapping occurrences, left to right
RECURSIVE str_replace(_, _, _)
str_replace(value, old, new) ==
    IF Len(value) < Len(old) THEN value
    ELSE IF SubSeq(value, 1, Len(old)) = old
         THEN new \o str_replace(SubSeq(value, Len(old) + 1, Len(value)), old, new)
         ELSE <<Head(value)>> \o str_replace(Tail(value), old, new)

\* mutant: `if` in place of `while`
if_double_slash(value, iters) ==
    IF Contains(value, <<"/", "/">>)
    THEN [value |-> str_replace(value, <<"/", "/">>, <<"/">>), iters |-> iters + 1]
    ELSE [value |-> value, iters |-> iters]
\* the loop `while "//" in value: value = value.replace("//", "/")`,
\* counting its iterations
RECURSIVE while_double_slash(_, _)
while_double_slash(value, iters) ==
    IF Contains(value, <<"/", "/">>)
    THEN while_double_slash(str_replace(value, <<"/", "/">>, <<"/">>), iters + 1)
    ELSE [value |-> value, iters |-> iters]

\* mutant: the "://" test is missing
norm_path_run_no_url(value) ==
    while_double_slash(str_replace(value, <<BS>>, <<"/">>), 0)
\* the body of _norm_path_string: its result and the iterations of its loop
norm_path_run(value) ==
    IF Contains(value, <<":", "/", "/">>)
    THEN [value |-> value, iters |-> 0]
    ELSE while_double_slash(str_replace(value, <<BS>>, <<"/">>), 0)

\* mutant: runs of slashes are collapsed before the backslashes are replaced
norm_collapse_first(value) ==
    IF Contains(value, <<":", "/", "/">>) THEN value
    ELSE str_replace(while_double_slash(value, 0).value, <<BS>>, <<"/">>)
_norm_path_string(value) == norm_path_run(value).value

(***************************************************************************)
(* JSON values (what json.loads builds) as trees                           *)
(***************************************************************************)
JNull == [t |-> "null"]
JBool(b) == [t |-> "bool", b |-> b]
JNum(n) == [t |-> "num", n |-> n]
JStr(s) == [t |-> "str", s |-> s]
JList(items) == [t |-> "list", items |-> items]
JDict(kv) == [t |-> "dict", kv |-> kv]
KV(k, v) == [k |-> k, v |-> v]
Ref(a) == [t |-> "ref", a |-> a]

Keys(kv) == [i \in 1..Len(kv) |-> kv[i].k]
HasKey(kv, k) == \E i \in 1..Len(kv) : kv[i].k = k
KeyIndex(kv, k) == CHOOSE i \in 1..Len(kv) : kv[i].k = k

\* d[k] = v on the members of a dict: a present key keeps its position
SetItem(kv, k, v) ==
    IF HasKey(kv, k)
    THEN [kv EXCEPT ![KeyIndex(kv, k)] = KV(k, v)]
    ELSE Append(kv, KV(k, v))

(***************************************************************************)
(* json.dumps: a value to text.  Text is a sequence of tokens; white space *)
(* is a token of its own and a string token carries its escaped literal.   *)
(***************************************************************************)
INDENT == 2

Tok(k) == [k |-> k]
StrTok(lit) == [k |-> "str", lit |-> lit]
NumTok(n) == [k |-> "num", n |-> n]
Ws(n) == [k |-> "ws", n |-> n]      \* a newline and n spaces
Sp == [k |-> "sp"]                  \* one space

RECURSIVE Escape(_)
Escape(s) ==
    IF s = <<>> THEN <<>>
    ELSE (IF Head(s) \in {BS, QUOTE} THEN <<BS, Head(s)>> ELSE <<Head(s)>>)
         \o Escape(Tail(s))

Newline(pretty, depth) == IF pretty THEN <<Ws(INDENT * depth)>> ELSE <<>>
ItemSep(pretty, depth) ==
    IF pretty THEN <<Tok(","), Ws(INDENT * depth)>> ELSE <<Tok(","), Sp>>

RECURSIVE Encode(_, _, _), EncodeItems(_, _, _, _), EncodeMembers(_, _, _, _)
Encode(o, pretty, depth) ==
    CASE o.t = "null" -> <<Tok("null")>>
      [] o.t = "bool" -> <<Tok(IF o.b THEN "true" ELSE "false")>>
      [] o.t = "num"  -> <<NumTok(o.n)>>
      [] o.t = "str"  -> <<StrTok(Escape(o.s))>>
      [] o.t = "list" ->
            IF o.items = <<>> THEN <<Tok("["), Tok("]")>>
            ELSE <<Tok("[")>> \o EncodeItems(o.items, 1, pretty, depth + 1)
                 \o Newline(pretty, depth) \o <<Tok("]")>>
      [] o.t = "dict" ->
            IF o.kv = <<>> THEN <<Tok("{"), Tok("}")>>
            ELSE <<Tok("{")>> \o EncodeMembers(o.kv, 1, pretty, depth + 1)
                 \o Newline(pretty, depth) \o <<Tok("}")>>

EncodeItems(items, i, pretty, depth) ==
    IF i > Len(items) THEN <<>>
    ELSE (IF i = 1 THEN Newline(pretty, depth) ELSE ItemSep(pretty, depth))
         \o Encode(items[i], pretty, depth)
         \o EncodeItems(items, i + 1, pretty, depth)

EncodeMembers(kv, i, pretty, depth) ==
    IF i > Len(kv) THEN <<>>
    ELSE (IF i = 1 THEN Newline(pretty, depth) ELSE ItemSep(pretty, depth))
         \o <<StrTok(Escape(kv[i].k)), Tok(":"), Sp>>
         \o Encode(kv[i].v, pretty, depth)
         \o EncodeMembers(kv, i + 1, pretty, depth)

\* json.dumps(obj)
json_dumps(obj) == Encode(obj, FALSE, 0)
\* json.dumps(obj, indent=2) + "\n"
json_dumps_indent_nl(obj) == Encode(obj, TRUE, 0) \o <<Ws(0)>>

(***************************************************************************)
(* json.loads: text to a value, or JSONDecodeError                         *)
(***************************************************************************)
EscapeChars == {BS, QUOTE, "/"}

RECURSIVE WellEscaped(_)
WellEscaped(lit) ==
    IF lit = <<>> THEN TRUE
    ELSE IF Head(lit) = QUOTE THEN FALSE
    ELSE IF Head(lit) = BS
         THEN /\ Len(lit) >= 2
              /\ lit[2] \in EscapeChars
              /\ WellEscaped(SubSeq(lit, 3, Len(lit)))
         ELSE WellEscaped(Tail(lit))

RECURSIVE Unescape(_)
Unescape(lit) ==
    IF lit = <<>> THEN <<>>
    ELSE IF Head(lit) = BS
         THEN <<lit[2]>> \o Unescape(SubSeq(lit, 3, Len(lit)))
         ELSE <<Head(lit)>> \o Unescape(Tail(lit))

RECURSIVE SkipWs(_, _)
SkipWs(toks, i) ==
    IF i <= Len(toks) /\ toks[i].k \in {"ws", "sp"} THEN SkipWs(toks, i + 1) ELSE i

DecodeError == [ok |-> FALSE, v |-> JNull, i |-> 0]
Decoded(v, i) == [ok |-> TRUE, v |-> v, i |-> i]
IsTok(toks, i, k) == i <= Len(toks) /\ toks[i].k = k
IsKeyTok(toks, i) == IsTok(toks, i, "str") /\ WellEscaped(toks[i].lit)

RECURSIVE ParseValue(_, _), ParseItems(_, _, _), ParseMembers(_, _, _)
\* the value starting at toks[i]
ParseValue(toks, i) ==
    IF i > Len(toks) THEN DecodeError
    ELSE LET tk == toks[i] IN
         CASE tk.k = "null"  -> Decoded(JNull, i + 1)
           [] tk.k = "true"  -> Decoded(JBool(TRUE), i + 1)
           [] tk.k = "false" -> Decoded(JBool(FALSE), i + 1)
           [] tk.k = "num"   -> Decoded(JNum(tk.n), i + 1)
           [] tk.k = "str"   ->
                 IF WellEscaped(tk.lit) THEN Decoded(JStr(Unescape(tk.lit)), i + 1)
                 ELSE DecodeError
           [] tk.k = "["     ->
                 LET j == SkipWs(toks, i + 1) IN
                 IF IsTok(toks, j, "]") THEN Decoded(JList(<<>>), j + 1)
                 ELSE ParseItems(toks, j, <<>>)
           [] tk.k = "{"     ->
                 LET j == SkipWs(toks, i + 1) IN
                 IF IsTok(toks, j, "}") THEN Decoded(JDict(<<>>), j + 1)
                 ELSE ParseMembers(toks, j, <<>>)
           [] OTHER          -> DecodeError

\* the items of an array from toks[i] on, acc being those already read
ParseItems(toks, i, acc) ==
    LET r == ParseValue(toks, i) IN
    IF ~r.ok THEN DecodeError
    ELSE LET j == SkipWs(toks, r.i) IN
         IF IsTok(toks, j, ",")
         THEN ParseItems(toks, SkipWs(toks, j + 1), Append(acc, r.v))
         ELSE IF IsTok(toks, j, "]")
              THEN Decoded(JList(Append(acc, r.v)), j + 1)
              ELSE DecodeError

\* the members of an object from toks[i] on; a repeated key keeps its last value
ParseMembers(toks, i, acc) ==
    IF ~IsKeyTok(toks, i) THEN DecodeError
    ELSE LET c == SkipWs(toks, i + 1) IN
         IF ~IsTok(toks, c, ":") THEN DecodeError
         ELSE LET r == ParseValue(toks, SkipWs(toks, c + 1)) IN
              IF ~r.ok THEN DecodeError
              ELSE LET j    == SkipWs(toks, r.i)
                       acc2 == SetItem(acc, Unescape(toks[i].lit), r.v)
                   IN IF IsTok(toks, j, ",")
                      THEN ParseMembers(toks, SkipWs(toks, j + 1), acc2)
                      ELSE IF IsTok(toks, j, "}")
                           THEN Decoded(JDict(acc2), j + 1)
                           ELSE DecodeError

json_loads(text) ==
    LET r == ParseValue(text, SkipWs(text, 1)) IN
    IF r.ok /\ SkipWs(text, r.i) = Len(text) + 1 THEN r ELSE DecodeError

(***************************************************************************)
(* The object heap.  A value is an immutable (None, bool, int, str) or a   *)
(* reference Ref(a) to the dict or list node heap[a].                      *)
(***************************************************************************)
isinstance_list(h, v) == v.t = "ref" /\ h[v.a].t = "list"
isinstance_dict(h, v) == v.t = "ref" /\ h[v.a].t = "dict"
isinstance_str(v) == v.t = "str"

\* d.get(key), d being the dict at address a: the member's value, or None
dict_get(h, a, key) ==
    IF HasKey(h[a].kv, key) THEN h[a].kv[KeyIndex(h[a].kv, key)].v ELSE JNull

\* allocate the objects of a tree (what json.loads returns): the new heap
\* and the value that refers to the root
RECURSIVE Build(_, _), BuildItems(_, _, _, _), BuildMembers(_, _, _, _)
Build(h, tree) ==
    CASE tree.t = "list" ->
            LET r == BuildItems(h, tree.items, 1, <<>>) IN
            [h |-> Append(r.h, JList(r.acc)), v |-> Ref(Len(r.h) + 1)]
      [] tree.t = "dict" ->
            LET r == BuildMembers(h, tree.kv, 1, <<>>) IN
            [h |-> Append(r.h, JDict(r.acc)), v |-> Ref(Len(r.h) + 1)]
      [] OTHER -> [h |-> h, v |-> tree]

BuildItems(h, items, i, acc) ==
    IF i > Len(items) THEN [h |-> h, acc |-> acc]
    ELSE LET r == Build(h, items[i]) IN
         BuildItems(r.h, items, i + 1, Append(acc, r.v))

BuildMembers(h, kv, i, acc) ==
    IF i > Len(kv) THEN [h |-> h, acc |-> acc]
    ELSE LET r == Build(h, kv[i].v) IN
         BuildMembers(r.h, kv, i + 1, Append(acc, KV(kv[i].k, r.v)))

\* the tree a value denotes (what json.dumps walks)
RECURSIVE ValueOf(_, _)
ValueOf(h, v) ==
    IF v.t # "ref" THEN v
    ELSE LET n == h[v.a] IN
         IF n.t = "list"
         THEN JList([i \in 1..Len(n.items) |-> ValueOf(h, n.items[i])])
         ELSE JDict([i \in 1..Len(n.kv) |-> KV(n.kv[i].k, ValueOf(h, n.kv[i].v))])

\* the addresses of the mutable objects reachable from a value
RECURSIVE Reach(_, _)
Reach(h, v) ==
    IF v.t # "ref" THEN {}
    ELSE LET n == h[v.a] IN
         {v.a} \cup
         (IF n.t = "list"
          THEN UNION {Reach(h, n.items[i]) : i \in 1..Len(n.items)}
          ELSE UNION {Reach(h, n.kv[i].v) : i \in 1..Len(n.kv)})

(***************************************************************************)
(* _to_linux_variant                                                       *)
(***************************************************************************)
skills == <<"skills">>
extensions == <<"extensions">>
themes == <<"themes">>
prompts == <<"prompts">>
packages_key == <<"packages">>

\* mutant: the top level uses the tuple of the packages
TOP_KEYS_with_prompts == <<extensions, skills, themes, prompts>>
TOP_KEYS == <<skills, extensions, themes>>
PKG_KEYS == <<extensions, skills, themes, prompts>>

\* mutant: the copy is skipped, cloned is the caller's object
clone_alias(h, v) == [h |-> h, v |-> v]
\* cloned = json.loads(json.dumps(data))
clone(h, v) == Build(h, json_loads(json_dumps(ValueOf(h, v))).v)

\* [_norm_path_string(v) if isinstance(v, str) else v for v in lst]
norm_list(items) ==
    [i \in 1..Len(items) |->
        IF isinstance_str(items[i]) THEN JStr(_norm_path_string(items[i].s))
        ELSE items[i]]

\* if isinstance(d.get(key), list): d[key] = [...]   (d the dict at address a)
norm_key(h, a, key) ==
    LET cur == dict_get(h, a, key) IN
    IF isinstance_list(h, cur)
    THEN LET h1 == Append(h, JList(norm_list(h[cur.a].items))) IN
         [h1 EXCEPT ![a] = JDict(SetItem(h[a].kv, key, Ref(Len(h1))))]
    ELSE h

\* for key in keys: ...
RECURSIVE norm_keys(_, _, _, _)
norm_keys(h, a, keys, i) ==
    IF i > Len(keys) THEN h
    ELSE norm_keys(norm_key(h, a, keys[i]), a, keys, i + 1)

\* for pkg in packages: ...   (packages the list at address a)
RECURSIVE norm_packages(_, _, _)
norm_packages(h, a, i) ==
    IF i > Len(h[a].items) THEN h
    ELSE LET pkg == h[a].items[i] IN
         IF ~isinstance_dict(h, pkg) THEN norm_packages(h, a, i + 1)
         ELSE norm_packages(norm_keys(h, pkg.a, PKG_KEYS, 1), a, i + 1)

\* mutant: cloned["packages"] in place of cloned.get("packages"): a KeyError
\* when the document has no packages
to_linux_variant_subscript(h, d) ==
    LET c == clone(h, d) IN
    IF ~isinstance_dict(c.h, c.v) \/ ~HasKey(c.h[c.v.a].kv, packages_key)
    THEN [ok |-> FALSE, h |-> c.h, v |-> JNull]
    ELSE LET h1 == norm_keys(c.h, c.v.a, TOP_KEYS, 1)
             packages == dict_get(h1, c.v.a, packages_key)
             h2 == IF isinstance_list(h1, packages)
                   THEN norm_packages(h1, packages.a, 1)
                   ELSE h1
         IN [ok |-> TRUE, h |-> h2, v |-> c.v]
\* the call: ok is FALSE when it raises (cloned.get on a non-dict is an
\* AttributeError); h is the heap after the call, v the returned value
_to_linux_variant(h, d) ==
    LET c == clone(h, d) IN
    IF ~isinstance_dict(c.h, c.v) THEN [ok |-> FALSE, h |-> c.h, v |-> JNull]
    ELSE LET h1 == norm_keys(c.h, c.v.a, TOP_KEYS, 1)
             packages == dict_get(h1, c.v.a, packages_key)
             h2 == IF isinstance_list(h1, packages)
                   THEN norm_packages(h1, packages.a, 1)
                   ELSE h1
         IN [ok |-> TRUE, h |-> h2, v |-> c.v]

(***************************************************************************)
(* The process environment of main                                         *)
(***************************************************************************)
WINDOWS_OUT == "<AGENT_DIR>/settings.windows.json"
LINUX_OUT == "<AGENT_DIR>/settings.linux.json"

\* an optional string (None, or a str): args.source, os.environ.get(...)
None == [given |-> FALSE, value |-> ""]
Some(s) == [given |-> TRUE, value |-> s]
\* the truth value Python gives an optional string: None and "" are false
Truthy(opt) == opt.given /\ opt.value # ""

\* Path(userprofile) / ".pi" / "agent" / "settings.json"
DefaultPath(userprofile) == userprofile \o "/.pi/agent/settings.json"

NoFile == [exists |-> FALSE, text |-> <<>>]
File(text) == [exists |-> TRUE, text |-> text]

Unset == "<unset>"
NoError == "none"
ConfigError == "SystemExit: USERPROFILE is not set. Pass --from explicitly."
NotFoundError == "SystemExit: Source file not found"
ParseError == "json.JSONDecodeError"
WriteError == "OSError"
NormalizeError == "AttributeError"

\* path.write_text(text): it succeeds, or open() fails and leaves the file as
\* it was, or the write fails after open() has truncated the file
WriteOutcomes == {"ok", "open_failed", "write_failed"}
write_text(files, path, text, outcome) ==
    CASE outcome = "ok"           -> [files EXCEPT ![path] = File(text)]
      [] outcome = "open_failed"  -> files
      [] outcome = "write_failed" -> [files EXCEPT ![path] = File(<<>>)]

(***************************************************************************)
(* main, one action per statement that reads or changes the environment    *)
(***************************************************************************)
Raise(err) ==
    /\ pc' = "failed"
    /\ error' = err
    /\ exit_code' = "1"

\* mutant: the branches of the conditional expression are swapped
UseExplicit_swapped == ~Truthy(argv)
\* `... if args.source else ...`
UseExplicit == Truthy(argv)

\* source = Path(args.source) if args.source else _default_live_windows_settings()
\* (a path is the location it names: Path(s) is modelled by s)
ResolveSource ==
    /\ pc = "start"
    /\ IF UseExplicit
       THEN /\ source' = argv.value
            /\ pc' = "resolved"
            /\ UNCHANGED <<env_read, error, exit_code>>
       ELSE /\ env_read' = TRUE
            /\ IF ~Truthy(environ)
               THEN Raise(ConfigError) /\ UNCHANGED source
               ELSE /\ source' = DefaultPath(environ.value)
                    /\ pc' = "resolved"
                    /\ UNCHANGED <<error, exit_code>>
    /\ UNCHANGED <<argv, environ, fs, fs0, stdout, raw, heap, heap0, data,
                   linux, again, wlog>>

\* if not source.exists(): raise SystemExit(...)
CheckExists ==
    /\ pc = "resolved"
    /\ IF fs[source].exists
       THEN pc' = "exists" /\ UNCHANGED <<error, exit_code>>
       ELSE Raise(NotFoundError)
    /\ UNCHANGED <<argv, environ, fs, fs0, stdout, source, raw, heap, heap0,
                   data, linux, again, env_read, wlog>>

\* raw = source.read_text(encoding="utf-8")
ReadText ==
    /\ pc = "exists"
    /\ raw' = fs[source].text
    /\ pc' = "read"
    /\ UNCHANGED <<argv, environ, fs, fs0, stdout, source, heap, heap0, data,
                   linux, again, exit_code, error, env_read, wlog>>

\* mutant: a parse error is swallowed and an empty document used instead
LoadJson_swallow ==
    /\ pc = "read"
    /\ LET r == json_loads(raw)
           b == Build(heap, IF r.ok THEN r.v ELSE JDict(<<>>))
       IN heap' = b.h /\ data' = b.v /\ pc' = "loaded"
    /\ UNCHANGED <<argv, environ, fs, fs0, stdout, source, raw, heap0, linux,
                   again, exit_code, error, env_read, wlog>>
\* data = json.loads(raw)
LoadJson ==
    /\ pc = "read"
    /\ LET r == json_loads(raw) IN
       IF r.ok
       THEN LET b == Build(heap, r.v) IN
            /\ heap' = b.h
            /\ data' = b.v
            /\ pc' = "loaded"
            /\ UNCHANGED <<error, exit_code>>
       ELSE Raise(ParseError) /\ UNCHANGED <<heap, data>>
    /\ UNCHANGED <<argv, environ, fs, fs0, stdout, source, raw, heap0, linux,
                   again, env_read, wlog>>

\* path.write_text(json.dumps(obj, indent=2) + "\n", encoding="utf-8"), at
\* position `at`, going to `next` when it returns and to `onfail` when it raises
WriteStep(at, path, obj, next, onfail) ==
    /\ pc = at
    /\ \E outcome \in WriteOutcomes :
        /\ fs' = write_text(fs, path, json_dumps_indent_nl(ValueOf(heap, obj)), outcome)
        /\ wlog' = Append(wlog, [path |-> path, ok |-> outcome = "ok"])
        /\ IF outcome = "ok"
           THEN pc' = next /\ UNCHANGED <<error, exit_code>>
           ELSE IF onfail = "failed"
                THEN Raise(WriteError)
                ELSE pc' = onfail /\ UNCHANGED <<error, exit_code>>
    /\ UNCHANGED <<argv, environ, fs0, stdout, source, raw, heap, heap0, data,
                   linux, again, env_read>>

\* mutant: a failed write is ignored and the run goes on
WriteWindows_ignore_failure ==
    WriteStep("loaded", WINDOWS_OUT, data, "wrote_windows", "wrote_windows")
\* WINDOWS_OUT.write_text(json.dumps(data, indent=2) + "\n", encoding="utf-8")
WriteWindows == WriteStep("loaded", WINDOWS_OUT, data, "wrote_windows", "failed")

\* linux = _to_linux_variant(data)
ToLinux ==
    /\ pc = "wrote_windows"
    /\ LET r == _to_linux_variant(heap, data) IN
       /\ heap' = r.h
       /\ IF r.ok
          THEN linux' = r.v /\ pc' = "normalized" /\ UNCHANGED <<error, exit_code>>
          ELSE Raise(NormalizeError) /\ UNCHANGED linux
    /\ UNCHANGED <<argv, environ, fs, fs0, stdout, source, raw, heap0, data,
                   again, env_read, wlog>>

\* mutant: the loaded document is written in place of the normalized one
WriteLinux_data == WriteStep("normalized", LINUX_OUT, data, "wrote_linux", "failed")
\* LINUX_OUT.write_text(json.dumps(linux, indent=2) + "\n", encoding="utf-8")
WriteLinux == WriteStep("normalized", LINUX_OUT, linux, "wrote_linux", "failed")

\* print(f"Wrote: {WINDOWS_OUT}")
PrintWindows ==
    /\ pc = "wrote_linux"
    /\ stdout' = Append(stdout, "Wrote: " \o WINDOWS_OUT)
    /\ pc' = "printed_windows"
    /\ UNCHANGED <<argv, environ, fs, fs0, source, raw, heap, heap0, data,
                   linux, again, exit_code, error, env_read, wlog>>

\* print(f"Wrote: {LINUX_OUT}"), and main returns
PrintLinux ==
    /\ pc = "printed_windows"
    /\ stdout' = Append(stdout, "Wrote: " \o LINUX_OUT)
    /\ pc' = "done"
    /\ exit_code' = "0"
    /\ UNCHANGED <<argv, environ, fs, fs0, source, raw, heap, heap0, data,
                   linux, again, error, env_read, wlog>>

(***************************************************************************)
(* The runs of main: command lines, environments and source files          *)
(***************************************************************************)
LivePath == "C:/live/settings.json"
MissingPath == "/nonexistent/path"
HomeMe == "C:/Users/me"
HomeNobody == "C:/Users/nobody"

Argvs == {None, Some(""), Some(LivePath), Some(MissingPath)}
Environs == {None, Some(""), Some(HomeMe), Some(HomeNobody)}
Paths == {WINDOWS_OUT, LINUX_OUT, LivePath, MissingPath,
          DefaultPath(HomeMe), DefaultPath(HomeNobody)}

theme_color == <<"theme_color">>
WinPath == <<"C", ":", BS, "a", BS, BS, "b">>
UrlString == <<"h", ":", "/", "/", "e", "/", "/", "p", BS>>
SlashRuns == <<"a", "/", "/", "b", "/", "/", "/", "c">>

\* {"skills": ["C:\\a\\\\b"], "packages": [{"extensions": ["x\\\\y"]}]}
EndToEndDoc ==
    JDict(<<KV(skills, JList(<<JStr(WinPath)>>)),
            KV(packages_key,
               JList(<<JDict(<<KV(extensions, JList(<<JStr(<<"x", BS, BS, "y">>)>>))>>)>>))>>)

UnrelatedDoc ==
    JDict(<<KV(theme_color, JStr(<<"C", ":", BS, "r", "e", "d">>)),
            KV(themes, JList(<<JStr(UrlString), JStr(SlashRuns),
                               JNum(1), JNull>>)),
            KV(<<"quote", QUOTE>>, JStr(<<QUOTE, "a", BS>>))>>)

NotListsDoc ==
    JDict(<<KV(packages_key, JDict(<<KV(skills, JList(<<JStr(WinPath)>>))>>)),
            KV(skills, JStr(WinPath)),
            KV(prompts, JList(<<JStr(WinPath)>>))>>)

ObjectDocs == {EndToEndDoc, UnrelatedDoc, NotListsDoc, JDict(<<>>)}
OtherDocs == {JList(<<JStr(WinPath)>>), JList(<<>>), JStr(WinPath), JNum(1),
              JBool(TRUE), JNull}

\* texts json.loads rejects
Malformed ==
    { <<>>,
      <<Tok("{")>>,
      <<Tok("["), NumTok(1), Tok(","), Tok("]")>>,
      <<StrTok(<<BS, "a">>)>>,
      <<Tok("{"), StrTok(skills), Tok(":"), Tok("}")>>,
      <<Tok("{"), NumTok(1), Tok(":"), NumTok(1), Tok("}")>>,
      json_dumps(EndToEndDoc) \o <<Tok("}")>> }

\* {"skills": ["a"], "skills": ["\/\\"]}: a repeated key and an escaped slash
RepeatedKeyText ==
    <<Tok("{"), StrTok(skills), Tok(":"), Tok("["), StrTok(<<"a">>), Tok("]"),
      Tok(","), Ws(1), StrTok(skills), Tok(":"),
      Tok("["), StrTok(<<BS, "/", BS, BS>>), Tok("]"), Tok("}")>>

SourceTexts ==
    {json_dumps_indent_nl(d) : d \in ObjectDocs \cup OtherDocs}
    \cup {json_dumps(EndToEndDoc), RepeatedKeyText}
    \cup Malformed

\* what an output file holds before the run, when it exists
OldText == json_dumps_indent_nl(JDict(<<KV(theme_color, JStr(<<"o", "l", "d">>))>>))

Init ==
    /\ argv \in Argvs
    /\ environ \in Environs
    /\ \E text \in SourceTexts, outs \in BOOLEAN :
        fs = [p \in Paths |->
                IF p \in {LivePath, DefaultPath(HomeMe)} THEN File(text)
                ELSE IF p \in {WINDOWS_OUT, LINUX_OUT} /\ outs THEN File(OldText)
                ELSE NoFile]
    /\ fs0 = fs
    /\ stdout = <<>>
    /\ pc = "start"
    /\ source = Unset
    /\ raw = <<>>
    /\ heap = <<>>
    /\ heap0 = <<>>
    /\ data = JNull
    /\ linux = JNull
    /\ again = JNull
    /\ exit_code = "running"
    /\ error = NoError
    /\ env_read = FALSE
    /\ wlog = <<>>

Next ==
    \/ ResolveSource
    \/ CheckExists
    \/ ReadText
    \/ LoadJson
    \/ WriteWindows
    \/ ToLinux
    \/ WriteLinux
    \/ PrintWindows
    \/ PrintLinux

Spec == Init /\ [][Next]_vars

(***************************************************************************)
(* _to_linux_variant as a function: a caller builds a document, calls it,  *)
(* and then either calls it again on the result or changes the result      *)
(***************************************************************************)
name_key == <<"name">>

\* the values a field holds around the candidate string v
FieldValues(v) ==
    { JList(<<JStr(v)>>),
      JList(<<JNum(1), JStr(v), JList(<<JStr(v)>>),
              JDict(<<KV(skills, JList(<<JStr(v)>>))>>), JStr(WinPath)>>),
      JStr(v),
      JDict(<<KV(skills, JList(<<JStr(v)>>))>>) }

DocsAround(v) ==
    {JDict(<<KV(k, fv)>>) :
        k \in {skills, extensions, themes, prompts, theme_color},
        fv \in FieldValues(v)}
    \cup
    {JDict(<<KV(theme_color, JStr(v)),
             KV(packages_key,
                JList(<<JStr(v),
                        JDict(<<KV(k, fv)>>),
                        JDict(<<KV(name_key, JStr(v)),
                                KV(prompts, JList(<<JStr(v), JNull>>))>>)>>)),
             KV(themes, JList(<<JStr(WinPath), JStr(v)>>))>>) :
        k \in {extensions, skills, themes, prompts, name_key},
        fv \in FieldValues(v)}
    \cup
    { JDict(<<KV(packages_key, JDict(<<KV(skills, JList(<<JStr(v)>>))>>))>>),
      JDict(<<>>),
      JList(<<JStr(v)>>), JStr(v), JNum(1), JBool(FALSE), JNull }

Candidates == StringsUpTo(MaxLen) \cup {UrlString, SlashRuns, WinPath}

Documents == UNION {DocsAround(v) : v \in Candidates}

InitNormalize ==
    /\ \E d \in Documents :
        LET b == Build(<<>>, d) IN heap = b.h /\ data = b.v
    /\ heap0 = heap
    /\ pc = "call"
    /\ linux = JNull
    /\ again = JNull
    /\ error = NoError
    /\ argv = None
    /\ environ = None
    /\ fs = [p \in Paths |-> NoFile]
    /\ fs0 = fs
    /\ stdout = <<>>
    /\ source = Unset
    /\ raw = <<>>
    /\ exit_code = "running"
    /\ env_read = FALSE
    /\ wlog = <<>>

\* linux = _to_linux_variant(data)
Call ==
    /\ pc = "call"
    /\ LET r == _to_linux_variant(heap, data) IN
       /\ heap' = r.h
       /\ IF r.ok
          THEN linux' = r.v /\ pc' = "returned" /\ UNCHANGED error
          ELSE error' = NormalizeError /\ pc' = "raised" /\ UNCHANGED linux
    /\ UNCHANGED <<argv, environ, fs, fs0, stdout, source, raw, heap0, data,
                   again, exit_code, env_read, wlog>>

\* again = _to_linux_variant(linux)
CallAgain ==
    /\ pc = "returned"
    /\ LET r == _to_linux_variant(heap, linux) IN
       /\ r.ok
       /\ heap' = r.h
       /\ again' = r.v
       /\ pc' = "again"
    /\ UNCHANGED <<argv, environ, fs, fs0, stdout, source, raw, heap0, data,
                   linux, exit_code, error, env_read, wlog>>

\* the caller changes one mutable object of the result: lst.append(None) on
\* a list, d["changed"] = None on a dict
Mutate ==
    /\ pc = "returned"
    /\ \E a \in Reach(heap, linux) :
        heap' = [heap EXCEPT ![a] =
                    IF @.t = "list" THEN JList(Append(@.items, JNull))
                    ELSE JDict(SetItem(@.kv, <<"changed">>, JNull))]
    /\ pc' = "mutated"
    /\ UNCHANGED <<argv, environ, fs, fs0, stdout, source, raw, heap0, data,
                   linux, again, exit_code, error, env_read, wlog>>

NextNormalize ==
    \/ Call
    \/ CallAgain
    \/ Mutate

SpecNormalize == InitNormalize /\ [][NextNormalize]_vars

(***************************************************************************)
(* Properties of _to_linux_variant, checked under SpecNormalize            *)
(***************************************************************************)
TopKeySet == {skills, extensions, themes}
PkgKeySet == {extensions, skills, themes, prompts}

Member(d, k) == d.kv[KeyIndex(d.kv, k)].v
HoldsList(d, k) == d.t = "dict" /\ HasKey(d.kv, k) /\ Member(d, k).t = "list"
PackageCount(d) ==
    IF HoldsList(d, packages_key) THEN Len(Member(d, packages_key).items) ELSE 0
Package(d, i) == Member(d, packages_key).items[i]

\* the path-bearing lists of document d: pkg = 0 is the top level, pkg = i
\* the i-th entry of packages
PathLists(d) ==
    {p \in [pkg : 0..PackageCount(d), key : TopKeySet \cup PkgKeySet] :
        IF p.pkg = 0 THEN p.key \in TopKeySet /\ HoldsList(d, p.key)
        ELSE p.key \in PkgKeySet /\ HoldsList(Package(d, p.pkg), p.key)}
ListAt(d, p) ==
    Member(IF p.pkg = 0 THEN d ELSE Package(d, p.pkg), p.key).items

\* the string elements of the path-bearing lists of d, as [p, i] positions
PathStrings(d) ==
    UNION {{[p |-> p, i |-> i] : i \in {j \in 1..Len(ListAt(d, p)) : ListAt(d, p)[j].t = "str"}} :
           p \in PathLists(d)}
StrAt(d, q) == ListAt(d, q.p)[q.i].s

HasScheme(s) == \E i \in 1..(Len(s) - 2) : s[i] = ":" /\ s[i + 1] = "/" /\ s[i + 2] = "/"
SlashForBackslash(s) == [i \in 1..Len(s) |-> IF s[i] = BS THEN "/" ELSE s[i]]
\* every run of slashes replaced by one slash
RECURSIVE CollapseRuns(_)
CollapseRuns(s) ==
    IF Len(s) < 2 THEN s
    ELSE IF s[1] = "/" /\ s[2] = "/" THEN CollapseRuns(Tail(s))
    ELSE <<s[1]>> \o CollapseRuns(Tail(s))
NoChar(s, c) == \A i \in 1..Len(s) : s[i] # c
NoDoubleSlash(s) == \A i \in 1..(Len(s) - 1) : ~(s[i] = "/" /\ s[i + 1] = "/")

Input == ValueOf(heap0, data)
Result == ValueOf(heap, linux)

\* C1: normalization is idempotent: a second call on the result returns an
\* equal document, and on every candidate string of the input
\* _norm_path_string applied twice gives what it gives applied once.
C1_Idempotent ==
    pc = "again" =>
        /\ ValueOf(heap, again) = Result
        /\ \A q \in PathStrings(Input) :
              /\ _norm_path_string(_norm_path_string(StrAt(Input, q)))
                    = _norm_path_string(StrAt(Input, q))
              /\ StrAt(ValueOf(heap, again), q) = StrAt(Result, q)

\* a second call was made on a result in which replacing the backslash of
\* ":\/" had produced "://" before the slashes were collapsed
C1_Witness ==
    /\ pc = "again"
    /\ Input = JDict(<<KV(skills, JList(<<JStr(<<":", BS, "/">>)>>))>>)
    /\ Result = JDict(<<KV(skills, JList(<<JStr(<<":", "/">>)>>))>>)

ListFrame(dl, rl) ==
    /\ rl.t = "list"
    /\ Len(rl.items) = Len(dl.items)
    /\ \A j \in 1..Len(dl.items) :
          IF dl.items[j].t = "str" THEN rl.items[j].t = "str"
          ELSE rl.items[j] = dl.items[j]

PackageFrame(dp, rp) ==
    /\ rp.t = "dict"
    /\ Keys(rp.kv) = Keys(dp.kv)
    /\ \A i \in 1..Len(dp.kv) :
          IF dp.kv[i].k \in PkgKeySet /\ dp.kv[i].v.t = "list"
          THEN ListFrame(dp.kv[i].v, rp.kv[i].v)
          ELSE rp.kv[i].v = dp.kv[i].v

DocumentFrame(d, r) ==
    /\ r.t = "dict"
    /\ Keys(r.kv) = Keys(d.kv)
    /\ \A i \in 1..Len(d.kv) :
          LET k == d.kv[i].k  dv == d.kv[i].v  rv == r.kv[i].v IN
          IF k \in TopKeySet /\ dv.t = "list" THEN ListFrame(dv, rv)
          ELSE IF k = packages_key /\ dv.t = "list"
               THEN /\ rv.t = "list"
                    /\ Len(rv.items) = Len(dv.items)
                    /\ \A j \in 1..Len(dv.items) :
                          IF dv.items[j].t = "dict"
                          THEN PackageFrame(dv.items[j], rv.items[j])
                          ELSE rv.items[j] = dv.items[j]
               ELSE rv = dv

\* C2: the returned document has the keys, key order, list lengths and
\* element order of the input and differs from it only in string elements of
\* the lists at skills, extensions, themes of the top level and at
\* extensions, skills, themes, prompts of the dicts in the packages list.
C2_StructurePreserved ==
    pc = "returned" => DocumentFrame(Input, Result)

\* a call returned a document whose top-level prompts list, non-list skills
\* of a package and non-dict package entry kept their backslashes while a
\* themes list was rewritten
C2_Witness ==
    /\ pc = "returned"
    /\ PackageCount(Input) >= 2
    /\ Package(Input, 1) = JStr(<<BS>>)
    /\ Package(Input, 2) = JDict(<<KV(skills, JStr(<<BS>>))>>)
    /\ Result # Input
    /\ Package(Result, 1) = JStr(<<BS>>)
    /\ Package(Result, 2) = JDict(<<KV(skills, JStr(<<BS>>))>>)

\* C3: a string element of a path-bearing list that has no "://" comes back
\* with every backslash replaced by a slash and every run of slashes
\* collapsed to one, so without backslash and without "//"; the loop of
\* _norm_path_string ends after at most as many rounds as the string is long.
C3_PathsNormalized ==
    pc = "returned" =>
        \A q \in PathStrings(Input) :
            LET v == StrAt(Input, q) IN
            ~HasScheme(v) =>
                /\ ListAt(Result, q.p)[q.i] = JStr(CollapseRuns(SlashForBackslash(v)))
                /\ NoChar(StrAt(Result, q), BS)
                /\ NoDoubleSlash(StrAt(Result, q))
                /\ norm_path_run(v).iters <= Len(v)

\* a call returned with a/b/c for a//b///c in the prompts list of a package
C3_Witness ==
    /\ pc = "returned"
    /\ \E q \in PathStrings(Input) :
          /\ q.p.pkg > 0
          /\ q.p.key = prompts
          /\ StrAt(Input, q) = SlashRuns
          /\ StrAt(Result, q) = <<"a", "/", "b", "/", "c">>
          /\ norm_path_run(SlashRuns).iters = 2

\* C4: a string element of a path-bearing list that contains "://" is in
\* the returned document unchanged.
C4_UrlPassthrough ==
    pc = "returned" =>
        \A q \in PathStrings(Input) :
            HasScheme(StrAt(Input, q)) =>
                ListAt(Result, q.p)[q.i] = ListAt(Input, q.p)[q.i]

\* a call returned with h://e//p\ kept in a list of a package while
\* another string of the document was rewritten
C4_Witness ==
    /\ pc = "returned"
    /\ Result # Input
    /\ \E q \in PathStrings(Input) :
          /\ q.p.pkg > 0
          /\ StrAt(Input, q) = UrlString
          /\ StrAt(Result, q) = UrlString

\* C10: _to_linux_variant leaves every object that existed before the call
\* as it was, and what it returns shares no mutable object with its
\* argument, so that changing the result leaves the argument unchanged.
C10_InputNotMutated ==
    /\ \A a \in 1..Len(heap0) : heap[a] = heap0[a]
    /\ ValueOf(heap, data) = Input
    /\ pc \in {"returned", "again", "mutated"} =>
          Reach(heap, linux) \cap Reach(heap, data) = {}
    /\ pc = "again" => Reach(heap, again) \cap Reach(heap, linux) = {}

\* the caller changed the list that the call had put under skills in the
\* result, and the argument still holds its backslash
C10_Witness ==
    /\ pc = "mutated"
    /\ Input = JDict(<<KV(skills, JList(<<JStr(<<BS>>)>>))>>)
    /\ Result = JDict(<<KV(skills, JList(<<JStr(<<"/">>), JNull>>))>>)
    /\ ValueOf(heap, data) = Input

(***************************************************************************)
(* Properties of main, checked under Spec                                  *)
(***************************************************************************)
\* what the run was given: the file it has to read, and whether reading and
\* parsing it can succeed
NoSource == ~Truthy(argv) /\ ~Truthy(environ)
InputPath == IF Truthy(argv) THEN argv.value ELSE DefaultPath(environ.value)
LoadFails ==
    \/ NoSource
    \/ ~fs0[InputPath].exists
    \/ fs0[InputPath].text \in Malformed
SourceDocument == json_loads(fs0[InputPath].text).v

Written(path) == [path |-> path, ok |-> TRUE]
AllWritesOk == \A i \in 1..Len(wlog) : wlog[i].ok

\* C5: when the source cannot be resolved, does not exist or is not
\* well-formed JSON, the run ends with a non-zero status and no write_text
\* call is ever made: both output files stay as they were.
C5_LoadFailureWritesNothing ==
    LoadFails =>
        /\ wlog = <<>>
        /\ fs = fs0
        /\ stdout = <<>>
        /\ pc \in {"start", "resolved", "exists", "read", "failed"}
        /\ pc = "failed" => exit_code = "1"
        /\ exit_code \in {"running", "1"}

\* a run given a malformed source ended on the parse error with the old
\* output files in place
C5_Witness ==
    /\ pc = "failed"
    /\ error = ParseError
    /\ exit_code = "1"
    /\ fs0[InputPath].text \in Malformed
    /\ fs[WINDOWS_OUT] = File(OldText)
    /\ fs[LINUX_OUT] = File(OldText)

\* C6: settings.linux.json is written only after a successful write of
\* settings.windows.json in the same run; after a failed canonical write
\* there is no further write.
C6_WriteOrdering ==
    /\ \A i \in 1..Len(wlog) :
          wlog[i].path = LINUX_OUT =>
              \E j \in 1..(i - 1) : wlog[j] = Written(WINDOWS_OUT)
    /\ \A i \in 1..Len(wlog) :
          (wlog[i].path = WINDOWS_OUT /\ ~wlog[i].ok) => Len(wlog) = i
    /\ fs[LINUX_OUT] # fs0[LINUX_OUT] => fs[WINDOWS_OUT] # fs0[WINDOWS_OUT]

\* a run ended on a failed canonical write that truncated the file, and the
\* normalized file is as it was
C6_Witness ==
    /\ pc = "failed"
    /\ error = WriteError
    /\ wlog = <<[path |-> WINDOWS_OUT, ok |-> FALSE]>>
    /\ fs[WINDOWS_OUT] = File(<<>>)
    /\ fs[LINUX_OUT] = fs0[LINUX_OUT]

RunCompletes ==
    /\ error = NoError
    /\ pc = "done" =>
          /\ exit_code = "0"
          /\ wlog = <<Written(WINDOWS_OUT), Written(LINUX_OUT)>>
          /\ fs[WINDOWS_OUT].exists /\ fs[LINUX_OUT].exists
    /\ pc # "done" => exit_code = "running"

\* C7 as stated: for a source that holds any well-formed JSON value, with
\* both writes succeeding, no error is raised and the run completes with
\* exit status 0 and both files written.
C7_AnyJsonValueCompletes ==
    (~LoadFails /\ AllWritesOk) => RunCompletes

\* C7, amended: for a source that holds a well-formed JSON object, with
\* both writes succeeding, no error is raised and the run completes with
\* exit status 0 and both files written.
C7_ObjectCompletes ==
    (~LoadFails /\ SourceDocument.t = "dict" /\ AllWritesOk) => RunCompletes

\* a run completed on an object whose packages and skills are not lists
C7_Witness ==
    /\ pc = "done"
    /\ exit_code = "0"
    /\ ValueOf(heap, data) = NotListsDoc
    /\ ValueOf(heap, linux) = NotListsDoc

\* C8: after a run that completed, settings.windows.json parses to the
\* loaded document, settings.linux.json parses to _to_linux_variant of it,
\* and the two paths were printed, canonical first, after both writes.
C8_OutputsRoundTrip ==
    /\ pc = "done" =>
          /\ ValueOf(heap, data) = SourceDocument
          /\ json_loads(fs[WINDOWS_OUT].text).ok
          /\ json_loads(fs[WINDOWS_OUT].text).v = ValueOf(heap, data)
          /\ json_loads(fs[LINUX_OUT].text).ok
          /\ json_loads(fs[LINUX_OUT].text).v = ValueOf(heap, linux)
          /\ LET r == _to_linux_variant(heap, data) IN
                r.ok /\ json_loads(fs[LINUX_OUT].text).v = ValueOf(r.h, r.v)
          /\ stdout = <<"Wrote: " \o WINDOWS_OUT, "Wrote: " \o LINUX_OUT>>
    /\ stdout # <<>> =>
          /\ wlog = <<Written(WINDOWS_OUT), Written(LINUX_OUT)>>
          /\ stdout[1] = "Wrote: " \o WINDOWS_OUT

\* a run completed on the end-to-end example, the normalized file holding
\* C:/a/b and x/y
C8_Witness ==
    /\ pc = "done"
    /\ ValueOf(heap, data) = EndToEndDoc
    /\ json_loads(fs[LINUX_OUT].text).v =
          JDict(<<KV(skills, JList(<<JStr(<<"C", ":", "/", "a", "/", "b">>)>>)),
                  KV(packages_key,
                     JList(<<JDict(<<KV(extensions,
                                        JList(<<JStr(<<"x", "/", "y">>)>>))>>)>>))>>)
    /\ fs[LINUX_OUT] # fs[WINDOWS_OUT]

\* C9 as stated: whenever --from is passed, with any value, the empty string
\* included, the source is that value, USERPROFILE is not read and its
\* absence ends no run.
C9_FromAlwaysWins ==
    (argv.given /\ pc # "start") =>
        /\ error # ConfigError
        /\ ~env_read
        /\ source = argv.value

\* C9, amended: whenever --from is passed with a non-empty value, the source
\* is that value, USERPROFILE is not read and its absence ends no run;
\* USERPROFILE is read when --from is not passed or is the empty string.
C9_NonEmptyFromWins ==
    pc # "start" =>
        IF argv.given /\ argv.value # ""
        THEN /\ error # ConfigError
             /\ ~env_read
             /\ source = argv.value
        ELSE /\ env_read
             /\ \/ error = ConfigError /\ source = Unset
                \/ error # ConfigError /\ source = DefaultPath(environ.value)

\* a run given --from and no USERPROFILE read the file passed
C9_Witness ==
    /\ pc = "read"
    /\ argv = Some(LivePath)
    /\ environ = None
    /\ source = LivePath
    /\ raw = fs[LivePath].text
    /\ ~env_read

====
